---- MODULE Spec2Model ----
(***************************************************************************)
(* A model of osgrep's incremental indexing pipeline:                      *)
(*   - initialSync / uploadFile / listStoreFileHashes (src/src/utils.ts),  *)
(*     the diff-and-upload engine behind a p-limit admission limiter;      *)
(*   - the MetaStore save/load protocol exercised by src/test_metastore.ts;*)
(*   - NodeGit.getGitFiles' reassembly of the NUL-delimited listing and    *)
(*     its wait for the child's exit, GitIgnoreFilter.isIgnored and        *)
(*     NodeGit.getGitIgnoreFilter's cache (src/src/lib/store-helpers.ts);  *)
(*   - file discovery as exercised by src/tests/file-system.test.ts;       *)
(*   - TreeSitterChunker.chunk and its paragraph fallback                  *)
(*     (src/unnamed/part_000);                                             *)
(*   - the embedding worker: EmbeddingWorker.embed and the message handler *)
(*     (src/src/lib/store-helpers.ts).                                     *)
(* Each subsystem has its own variables and its own specification.         *)
(***************************************************************************)
EXTENDS Integers, Sequences, FiniteSets, TLC

\* ------------------------------------------------------------------ bounds
NumFiles == 2          \* candidate files of the per-file sync model
MaxByte == 2           \* file contents are <<>> or <<b>>, b \in 1..MaxByte
MaxRuns == 2           \* successive initialSync runs
MaxEdits == 1          \* edits of a file by another process during one run
StorePage == 1         \* entries the store serves per listing response
LimFiles == 102        \* candidate files of the limiter model
MaxKeys == 2           \* keys of the metadata mapping
MaxHash == 1           \* hashes a key can be set to
MaxOut == 4            \* bytes of the listing output
MaxDepth == 2          \* segments of a queried path below the root
MaxContent == 4        \* characters of a chunked file's content
MaxNodes == 2          \* top-level nodes of a syntax tree
MaxWrites == 3         \* writes of the root ignore file
MaxReqs == 2           \* request messages sent to the embedding worker
MaxBatch == 2          \* texts in one request
MaxSkew == 1           \* model output widths sliceDims-MaxSkew..sliceDims+MaxSkew

\* ------------------------------------------------------ program constants
concurrency == 100     \* utils.ts:180
listLimit == 100       \* utils.ts:76
minOtherLength == 50   \* part_000:126
sliceDims == 128       \* store-helpers.ts:125
modelDims == 384       \* store-helpers.ts:124

VARIABLES
  \* environment of initialSync
  disk,          \* file path -> bytes currently on disk
  remote,        \* external id -> the store's file record
  \* initialSync (utils.ts:163-210)
  syncState,     \* "idle" | "listing" | "running" | "returned" | "rejected"
  run,           \* number of initialSync calls started
  after,         \* listStoreFileHashes' cursor (0: undefined)
  storeHashes,   \* the map listStoreFileHashes builds
  pc,            \* per file: where its limit(async () => ...) task stands
  queue,         \* p-limit's queue of tasks not yet started
  activeCount,   \* p-limit's activeCount
  pendingAdmits, \* p-limit's per-enqueue admission microtasks not yet run
  upBuffer,      \* uploadFile's buffer, per file
  upHash,        \* uploadFile's hash, per file
  processed, uploaded, total,
  progressCalls, \* onProgress calls of this run
  uploadCalls,   \* client.stores.files.upload calls of this run
  \* history of the run, for the properties
  failed,        \* files whose task ended in the catch block
  attempted,     \* files for which an upload call was made
  counted,       \* files whose task incremented processed
  didUpload,     \* files whose uploadFile returned true
  edits,         \* edits by another process during this run
  startDisk,     \* disk when this run started
  prevDisk,      \* disk when the previous run started
  prevOK,        \* the previous run returned, without failure or edit
  requests,      \* the `after` of each listing request of this run
  upLog,         \* per file: the outcomes of uploadFile's upload calls
  \* the admission limiter under load (utils.ts:180-208), files as counts
  lMapped,       \* files passed to limit() so far by repoFiles.map
  lPending,      \* admission microtasks not yet run
  lQueue,        \* size of p-limit's queue
  lActive,       \* p-limit's activeCount
  lRead,         \* started tasks awaiting the read of line 187
  lUp,           \* started tasks inside uploadFile
  lDone,         \* settled tasks
  \* MetaStore (src/test_metastore.ts)
  mFiles,        \* "primary" and "tmp": the documents on disk
  mData,         \* the in-memory mapping
  mPc,           \* "dead" | "new" | "ready" | "writing" | "rename"
  mTarget,       \* the serialized document save() is writing
  mOld,          \* history: the persisted mapping when the last save began
  mNew,          \* history: the mapping the last save was writing
  mFresh,        \* history: load() has finished and no set() followed
  mStaged,       \* history: the staged mapping load() recovered from
  mRecovered,    \* history: the last load() took the recovery branch
  mCorrupted,    \* history: the primary was damaged from outside
  \* NodeGit.getGitFiles (store-helpers.ts:327-361)
  gOutput,       \* the bytes git writes to stdout
  gPos,          \* bytes delivered so far
  gBuffer,       \* the loop's buffer
  gYielded,      \* paths yielded so far
  gPc,           \* "reading" | "waitExit" | "done" | "crashed"
  gEvent,        \* the child's event emitted so far: "none" | "exit" | "error"
  gResolved,     \* the promise of lines 357-360 is resolved
  \* GitIgnoreFilter (store-helpers.ts:174-230) and the file system it stats
  iRules,        \* the patterns added to ignoreInstance
  iDistIsDir,    \* root/dist is a directory (else a regular file)
  iPath,         \* filePath of the last isIgnored call
  iResult,       \* its outcome: "none" | "true" | "false" | "throw"
  \* file discovery, getFiles(root) (src/tests/file-system.test.ts)
  dSecondary,    \* patterns of the secondary ignore file
  dLiteral,      \* the configured ignorePatterns
  dVcs,          \* the version-control ignore rules
  dPending,      \* entries read from a directory and not yet visited
  dYielded,      \* paths yielded so far
  dPc,           \* "idle" | "walking" | "done"
  \* TreeSitterChunker (src/unnamed/part_000)
  cContent,      \* content of the current chunk() call
  cExt,          \* extension of its filePath
  cFile,         \* the grammar file: "absent" | "partial" | "complete" | "garbage"
  cMemo,         \* this.languages has the language
  cNodes,        \* tree.rootNode.children of the current call
  cPc,           \* "idle" | "download" | "load" | "parse" | "done" | "raised"
  cVia,          \* how the call ended
  cResult,       \* the chunks returned
  \* NodeGit.getGitIgnoreFilter (store-helpers.ts:367-393)
  kFile,         \* the root .gitignore: exists, rules, mtime
  kHist,         \* history: the rules written at each mtime
  kCache,        \* gitIgnoreCache's entry for the root (filter 0: none)
  kFilters,      \* the GitIgnoreFilter objects built so far: their rules
  kBuilt,        \* history: the file's rules when each object was built
  kReturned,     \* the object the last call returned
  kPrev,         \* history: the cache entry the last call found
  kJustCalled,   \* history: the file is as the last call saw it
  \* the embedding worker (store-helpers.ts:84-164)
  wWidth,        \* hidden size of the model's output
  wPipe,         \* EmbeddingWorker.pipe: "null" | "loaded"
  wAllowRemote,  \* env.allowRemoteModels
  wMsg,          \* request id -> the message received
  wPc,           \* request id -> where its handler is suspended
  wPosted        \* the replies posted to the parent, in order

syncVars == <<disk, remote, syncState, run, after, storeHashes, pc, queue,
              activeCount, pendingAdmits, upBuffer, upHash, processed,
              uploaded, total, progressCalls, uploadCalls, failed, attempted,
              counted, didUpload, edits, startDisk, prevDisk, prevOK,
              requests, upLog>>

limVars == <<lMapped, lPending, lQueue, lActive, lRead, lUp, lDone>>
metaVars == <<mFiles, mData, mPc, mTarget, mOld, mNew, mFresh, mStaged,
              mRecovered, mCorrupted>>
gitVars == <<gOutput, gPos, gBuffer, gYielded, gPc, gEvent, gResolved>>
ignVars == <<iRules, iDistIsDir, iPath, iResult>>
discVars == <<dSecondary, dLiteral, dVcs, dPending, dYielded, dPc>>
chunkVars == <<cContent, cExt, cFile, cMemo, cNodes, cPc, cVia, cResult>>
cacheVars == <<kFile, kHist, kCache, kFilters, kBuilt, kReturned, kPrev,
               kJustCalled>>
workerVars == <<wWidth, wPipe, wAllowRemote, wMsg, wPc, wPosted>>

vars == <<syncVars, limVars, metaVars, gitVars, ignVars, discVars, chunkVars,
          cacheVars, workerVars>>
otherThanSync == <<limVars, metaVars, gitVars, ignVars, discVars,
                   chunkVars, cacheVars, workerVars>>
otherThanLim == <<syncVars, metaVars, gitVars, ignVars, discVars,
                   chunkVars, cacheVars, workerVars>>
otherThanMeta == <<syncVars, limVars, gitVars, ignVars, discVars,
                   chunkVars, cacheVars, workerVars>>
otherThanGit == <<syncVars, limVars, metaVars, ignVars, discVars,
                   chunkVars, cacheVars, workerVars>>
otherThanIgn == <<syncVars, limVars, metaVars, gitVars, discVars,
                   chunkVars, cacheVars, workerVars>>
otherThanDisc == <<syncVars, limVars, metaVars, gitVars, ignVars,
                   chunkVars, cacheVars, workerVars>>
otherThanChunk == <<syncVars, limVars, metaVars, gitVars, ignVars,
                    discVars, cacheVars, workerVars>>
otherThanCache == <<syncVars, limVars, metaVars, gitVars, ignVars,
                    discVars, chunkVars, workerVars>>
otherThanWorker == <<syncVars, limVars, metaVars, gitVars, ignVars,
                     discVars, chunkVars, cacheVars>>

\* ----------------------------------------------------------------- values
Files == 1..NumFiles
Contents == {<<>>} \cup {<<b>> : b \in 1..MaxByte}
Undefined == <<>>

\* createHash("sha256").update(buffer).digest("hex"): a digest, never the
\* empty string, equal for equal buffers only.
computeBufferHash(buffer) == <<"sha256", buffer>>

NoFile == [present |-> FALSE, hash |-> Undefined, bytes |-> <<>>]

Min(a, b) == IF a < b THEN a ELSE b

\* The smallest n members of a set of integers.
RECURSIVE FirstN(_, _)
FirstN(S, n) ==
  IF n = 0 \/ S = {} THEN {}
  ELSE LET m == CHOOSE x \in S : \A y \in S : x <= y
       IN {m} \cup FirstN(S \ {m}, n - 1)

SetMax(S) == CHOOSE x \in S : \A y \in S : y <= x

\* client.stores.files.list(store, {limit, after}): the page of the store's
\* files after cursor a, at most `limit` of them (the store serves StorePage
\* per response); the cursor of an entry is its position key.
storeList(a) ==
  LET rest == {f \in Files : remote[f].present /\ f > a}
      data == FirstN(rest, Min(listLimit, StorePage))
  IN [data |-> data,
      has_more |-> data # rest,
      last_cursor |-> IF data = {} THEN 0 ELSE SetMax(data)]

\* p-limit: a queued task starts when a slot is free.
limitCanStartOpen(active, qsize) == qsize > 0
limitCanStart(active, qsize) == active < concurrency /\ qsize > 0

\* ------------------------------------------------------------ initialSync
SyncInit ==
  /\ disk \in [Files -> Contents]
  /\ remote = [f \in Files |-> NoFile]
  /\ syncState = "idle"
  /\ run = 0
  /\ after = 0
  /\ storeHashes = [f \in Files |-> Undefined]
  /\ pc = [f \in Files |-> "none"]
  /\ queue = <<>>
  /\ activeCount = 0
  /\ pendingAdmits = 0
  /\ upBuffer = [f \in Files |-> <<>>]
  /\ upHash = [f \in Files |-> Undefined]
  /\ processed = 0
  /\ uploaded = 0
  /\ total = 0
  /\ progressCalls = 0
  /\ uploadCalls = 0
  /\ failed = {}
  /\ attempted = {}
  /\ counted = {}
  /\ didUpload = {}
  /\ edits = 0
  /\ startDisk = disk
  /\ prevDisk = disk
  /\ prevOK = FALSE
  /\ requests = <<>>
  /\ upLog = [f \in Files |-> <<>>]

\* The run that just ended returned, no task failed, no file was edited.
RunWasClean == syncState = "returned" /\ failed = {} /\ edits = 0

\* initialSync is called: line 174 issues the first listing request.
StartSync ==
  /\ syncState \in {"idle", "returned", "rejected"}
  /\ run < MaxRuns
  /\ run' = run + 1
  /\ syncState' = "listing"
  /\ after' = 0
  /\ storeHashes' = [f \in Files |-> Undefined]
  /\ pc' = [f \in Files |-> "none"]
  /\ queue' = <<>>
  /\ activeCount' = 0
  /\ pendingAdmits' = 0
  /\ upBuffer' = [f \in Files |-> <<>>]
  /\ upHash' = [f \in Files |-> Undefined]
  /\ processed' = 0 /\ uploaded' = 0 /\ total' = 0
  /\ progressCalls' = 0 /\ uploadCalls' = 0
  /\ failed' = {} /\ attempted' = {} /\ counted' = {} /\ didUpload' = {}
  /\ edits' = 0
  /\ prevOK' = RunWasClean
  /\ prevDisk' = startDisk
  /\ startDisk' = disk
  /\ requests' = <<>>
  /\ upLog' = [f \in Files |-> <<>>]
  /\ UNCHANGED <<disk, remote>>
  /\ UNCHANGED otherThanSync

\* Another process rewrites a file: between runs freely, during a run at
\* most MaxEdits times.
EditFile(f, c) ==
  /\ c # disk[f]
  /\ \/ syncState \in {"returned", "rejected"} /\ run < MaxRuns /\ edits' = edits
     \/ syncState \in {"listing", "running"} /\ edits < MaxEdits
        /\ edits' = edits + 1
  /\ disk' = [disk EXCEPT ![f] = c]
  /\ UNCHANGED <<remote, syncState, run, after, storeHashes, pc, queue,
                 activeCount, pendingAdmits, upBuffer, upHash, processed,
                 uploaded, total, progressCalls, uploadCalls, failed,
                 attempted, counted, didUpload, startDisk, prevDisk, prevOK,
                 requests, upLog>>
  /\ UNCHANGED otherThanSync

\* Lines 85-87: the cursor of the next request (0: undefined, the loop ends).
nextAfterStop(resp) == 0
nextAfter(resp) == IF resp.has_more THEN resp.last_cursor ELSE 0

\* One iteration of listStoreFileHashes' do-while (lines 75-88), the request
\* succeeding; after the last page, lines 175-184: enumerate, and map every
\* file through limit().
ListPage ==
  /\ syncState = "listing"
  /\ requests' = Append(requests, after)
  /\ LET resp == storeList(after)
         next == nextAfter(resp)
     IN /\ storeHashes' = [f \in Files |->
                             IF f \in resp.data THEN remote[f].hash
                             ELSE storeHashes[f]]
        /\ after' = next
        /\ IF next # 0
           THEN UNCHANGED <<syncState, total, pc, queue, pendingAdmits>>
           ELSE /\ syncState' = "running"
                /\ total' = NumFiles
                /\ pc' = [f \in Files |-> "queued"]
                /\ queue' = [i \in 1..NumFiles |-> i]
                /\ pendingAdmits' = NumFiles
  /\ UNCHANGED <<disk, remote, run, activeCount, upBuffer, upHash, processed,
                 uploaded, progressCalls, uploadCalls, failed, attempted, counted,
                 didUpload, edits, startDisk, prevDisk, prevOK, upLog>>
  /\ UNCHANGED otherThanSync

\* A listing request fails: nothing catches it in listStoreFileHashes or at
\* line 174, so initialSync's promise rejects.
ListPageFail ==
  /\ syncState = "listing"
  /\ syncState' = "rejected"
  /\ requests' = Append(requests, after)
  /\ UNCHANGED <<disk, remote, run, after, storeHashes, pc, queue,
                 activeCount, pendingAdmits, upBuffer, upHash, processed,
                 uploaded, total, progressCalls, uploadCalls, failed,
                 attempted, counted, didUpload, edits, startDisk, prevDisk, prevOK, upLog>>
  /\ UNCHANGED otherThanSync

\* p-limit's admission microtask of one enqueue: start the head of the queue
\* if a slot is free. The started task runs up to its first await, the
\* readFile of line 187.
AdmitMicrotask ==
  /\ syncState = "running"
  /\ pendingAdmits > 0
  /\ pendingAdmits' = pendingAdmits - 1
  /\ IF limitCanStart(activeCount, Len(queue))
     THEN /\ activeCount' = activeCount + 1
          /\ pc' = [pc EXCEPT ![Head(queue)] = "read"]
          /\ queue' = Tail(queue)
     ELSE UNCHANGED <<activeCount, pc, queue>>
  /\ UNCHANGED <<disk, remote, syncState, run, after, storeHashes, upBuffer,
                 upHash, processed, uploaded, total, progressCalls,
                 uploadCalls, failed, attempted, counted, didUpload, edits, startDisk,
                 prevDisk, prevOK,
                 requests, upLog>>
  /\ UNCHANGED otherThanSync

\* File f's task settles (lines 202-205 have run): p-limit's next() frees the
\* slot and starts the head of the queue, if any.
Settle(f) ==
  IF Len(queue) > 0
  THEN /\ pc' = [pc EXCEPT ![f] = "done", ![Head(queue)] = "read"]
       /\ queue' = Tail(queue)
       /\ activeCount' = activeCount
  ELSE /\ pc' = [pc EXCEPT ![f] = "done"]
       /\ queue' = queue
       /\ activeCount' = activeCount - 1

\* Line 191: !existingHash || existingHash !== hash.
needsUploadAlways(existingHash, hash) == TRUE
needsUploadWhenMissing(existingHash, hash) == existingHash = Undefined
needsUpload(existingHash, hash) ==
  existingHash = Undefined \/ existingHash # hash

\* An I/O completion runs only once the microtask queue is empty.
IoReady(f, at) == syncState = "running" /\ pendingAdmits = 0 /\ pc[f] = at

\* Lines 187-191 and 202: the read of line 187 succeeds.
ReadDone(f) ==
  /\ IoReady(f, "read")
  /\ LET buffer == disk[f]
         hash == computeBufferHash(buffer)
         existingHash == storeHashes[f]
     IN /\ processed' = processed + 1
        /\ counted' = counted \cup {f}
        /\ IF needsUpload(existingHash, hash)
           THEN \* uploadFile is called and awaits its own readFile (line 132)
                /\ pc' = [pc EXCEPT ![f] = "upRead"]
                /\ UNCHANGED <<queue, activeCount, progressCalls>>
           ELSE /\ progressCalls' = progressCalls + 1
                /\ Settle(f)
  /\ UNCHANGED <<disk, remote, syncState, run, after, storeHashes,
                 pendingAdmits, upBuffer, upHash, uploaded, total,
                 uploadCalls, failed, attempted, didUpload, edits, startDisk,
                 prevDisk, prevOK,
                 requests, upLog>>
  /\ UNCHANGED otherThanSync

\* The read of line 187 fails: the catch of lines 203-205.
ReadFail(f) ==
  /\ IoReady(f, "read")
  /\ failed' = failed \cup {f}
  /\ progressCalls' = progressCalls + 1
  /\ Settle(f)
  /\ UNCHANGED <<disk, remote, syncState, run, after, storeHashes,
                 pendingAdmits, upBuffer, upHash, processed, uploaded, total,
                 uploadCalls, attempted, counted, didUpload, edits, startDisk,
                 prevDisk, prevOK,
                 requests, upLog>>
  /\ UNCHANGED otherThanSync

\* uploadFile lines 132-152: its read succeeds; an empty buffer returns
\* false (and line 202 runs), otherwise the streamed upload is issued.
UploadReadDone(f) ==
  /\ IoReady(f, "upRead")
  /\ LET buffer == disk[f]
     IN IF Len(buffer) = 0
        THEN /\ progressCalls' = progressCalls + 1
             /\ Settle(f)
             /\ UNCHANGED <<upBuffer, upHash, uploadCalls, attempted, counted>>
        ELSE /\ upBuffer' = [upBuffer EXCEPT ![f] = buffer]
             /\ upHash' = [upHash EXCEPT ![f] = computeBufferHash(buffer)]
             /\ pc' = [pc EXCEPT ![f] = "stream"]
             /\ uploadCalls' = uploadCalls + 1
             /\ attempted' = attempted \cup {f}
             /\ UNCHANGED <<queue, activeCount, progressCalls>>
  /\ UNCHANGED <<disk, remote, syncState, run, after, storeHashes,
                 pendingAdmits, processed, uploaded, total, failed, counted,
                 didUpload, edits, startDisk, prevDisk, prevOK,
                 requests, upLog>>
  /\ UNCHANGED otherThanSync

\* uploadFile's read (line 132) fails: it throws into the catch of 203-205.
UploadReadFail(f) ==
  /\ IoReady(f, "upRead")
  /\ failed' = failed \cup {f}
  /\ progressCalls' = progressCalls + 1
  /\ Settle(f)
  /\ UNCHANGED <<disk, remote, syncState, run, after, storeHashes,
                 pendingAdmits, upBuffer, upHash, processed, uploaded, total,
                 uploadCalls, attempted, counted, didUpload, edits, startDisk,
                 prevDisk, prevOK,
                 requests, upLog>>
  /\ UNCHANGED otherThanSync

\* The store takes an upload with {external_id: f, overwrite: true,
\* metadata: {path, hash}}.
storePutKeepHash(f, hash, bytes) ==
  [remote EXCEPT ![f] = [present |-> TRUE, hash |-> @.hash, bytes |-> bytes]]
storePut(f, hash, bytes) ==
  [remote EXCEPT ![f] = [present |-> TRUE, hash |-> hash, bytes |-> bytes]]

\* uploadFile returned true: lines 198-202.
UploadedUncounted(f) ==
  /\ uploaded' = uploaded
  /\ didUpload' = didUpload \cup {f}
  /\ progressCalls' = progressCalls + 1
  /\ Settle(f)
UploadedTwice(f) ==
  /\ uploaded' = uploaded + 2
  /\ didUpload' = didUpload \cup {f}
  /\ progressCalls' = progressCalls + 1
  /\ Settle(f)
Uploaded(f) ==
  /\ uploaded' = uploaded + 1
  /\ didUpload' = didUpload \cup {f}
  /\ progressCalls' = progressCalls + 1
  /\ Settle(f)

\* The streamed upload (lines 148-152) succeeds: the store receives what the
\* read stream delivered, the bytes on disk while it was read.
StreamDone(f) ==
  /\ IoReady(f, "stream")
  /\ upLog' = [upLog EXCEPT ![f] = Append(@, "streamOK")]
  /\ remote' = storePut(f, upHash[f], disk[f])
  /\ Uploaded(f)
  /\ UNCHANGED <<disk, syncState, run, after, storeHashes, pendingAdmits,
                 upBuffer, upHash, processed, total, uploadCalls, failed,
                 attempted, counted, edits, startDisk, prevDisk, prevOK, requests>>
  /\ UNCHANGED otherThanSync

\* The streamed upload fails: line 153 catches and issues the buffered one.
StreamFail(f) ==
  /\ IoReady(f, "stream")
  /\ upLog' = [upLog EXCEPT ![f] = Append(@, "streamFail")]
  /\ pc' = [pc EXCEPT ![f] = "buffered"]
  /\ uploadCalls' = uploadCalls + 1
  /\ UNCHANGED <<disk, remote, syncState, run, after, storeHashes, queue,
                 activeCount, pendingAdmits, upBuffer, upHash, processed,
                 uploaded, total, progressCalls, failed, attempted, counted,
                 didUpload, edits, startDisk, prevDisk, prevOK, requests>>
  /\ UNCHANGED otherThanSync

\* The buffered upload (lines 154-158) succeeds.
BufferedDone(f) ==
  /\ IoReady(f, "buffered")
  /\ upLog' = [upLog EXCEPT ![f] = Append(@, "bufferedOK")]
  /\ remote' = storePut(f, upHash[f], upBuffer[f])
  /\ Uploaded(f)
  /\ UNCHANGED <<disk, syncState, run, after, storeHashes, pendingAdmits,
                 upBuffer, upHash, processed, total, uploadCalls, failed,
                 attempted, counted, edits, startDisk, prevDisk, prevOK, requests>>
  /\ UNCHANGED otherThanSync

\* The buffered upload fails too: uploadFile throws into the catch of
\* lines 203-205.
BufferedFail(f) ==
  /\ IoReady(f, "buffered")
  /\ upLog' = [upLog EXCEPT ![f] = Append(@, "bufferedFail")]
  /\ failed' = failed \cup {f}
  /\ progressCalls' = progressCalls + 1
  /\ Settle(f)
  /\ UNCHANGED <<disk, remote, syncState, run, after, storeHashes,
                 pendingAdmits, upBuffer, upHash, processed, uploaded, total,
                 uploadCalls, attempted, counted, didUpload, edits, startDisk,
                 prevDisk, prevOK, requests>>
  /\ UNCHANGED otherThanSync

\* Promise.all resolves (every task settled): line 209 returns the aggregate.
Return ==
  /\ syncState = "running"
  /\ pendingAdmits = 0
  /\ \A f \in Files : pc[f] = "done"
  /\ syncState' = "returned"
  /\ UNCHANGED <<disk, remote, run, after, storeHashes, pc, queue,
                 activeCount, pendingAdmits, upBuffer, upHash, processed,
                 uploaded, total, progressCalls, uploadCalls, failed,
                 attempted, counted, didUpload, edits, startDisk, prevDisk, prevOK,
                 requests, upLog>>
  /\ UNCHANGED otherThanSync

\* The steps of a call of initialSync itself: each is the completion or the
\* failure of a call it awaits, or the continuation that follows one.
SyncStep ==
  \/ ListPage
  \/ ListPageFail
  \/ AdmitMicrotask
  \/ \E f \in Files : ReadDone(f)
  \/ \E f \in Files : ReadFail(f)
  \/ \E f \in Files : UploadReadDone(f)
  \/ \E f \in Files : UploadReadFail(f)
  \/ \E f \in Files : StreamDone(f)
  \/ \E f \in Files : StreamFail(f)
  \/ \E f \in Files : BufferedDone(f)
  \/ \E f \in Files : BufferedFail(f)
  \/ Return

SyncNext ==
  \/ StartSync
  \/ \E f \in Files, c \in Contents : EditFile(f, c)
  \/ SyncStep

SyncIdle ==
  /\ disk = [f \in Files |-> <<>>]
  /\ remote = [f \in Files |-> NoFile]
  /\ syncState = "idle"
  /\ run = 0
  /\ after = 0
  /\ storeHashes = [f \in Files |-> Undefined]
  /\ pc = [f \in Files |-> "none"]
  /\ queue = <<>>
  /\ activeCount = 0
  /\ pendingAdmits = 0
  /\ upBuffer = [f \in Files |-> <<>>]
  /\ upHash = [f \in Files |-> Undefined]
  /\ processed = 0 /\ uploaded = 0 /\ total = 0
  /\ progressCalls = 0 /\ uploadCalls = 0
  /\ failed = {} /\ attempted = {} /\ counted = {} /\ didUpload = {}
  /\ edits = 0
  /\ startDisk = disk /\ prevDisk = disk /\ prevOK = FALSE
  /\ requests = <<>> /\ upLog = [f \in Files |-> <<>>]

\* ------------------------------------- the admission limiter under load
\* initialSync's lines 180-208 with more candidate files than slots. The
\* tasks are interchangeable for the limiter, so the state counts them.
LimInit ==
  /\ lMapped = 0 /\ lPending = 0 /\ lQueue = 0 /\ lActive = 0
  /\ lRead = 0 /\ lUp = 0 /\ lDone = 0

\* repoFiles.map: limit(fn) enqueues the task and schedules its admission
\* microtask (line 185).
LimEnqueue ==
  /\ lMapped < LimFiles
  /\ lMapped' = lMapped + 1
  /\ lQueue' = lQueue + 1
  /\ lPending' = lPending + 1
  /\ UNCHANGED <<lActive, lRead, lUp, lDone>>
  /\ UNCHANGED otherThanLim

\* An admission microtask, run once the synchronous map has ended: the head
\* of the queue starts if a slot is free, and runs up to its readFile.
LimAdmit ==
  /\ lMapped = LimFiles
  /\ lPending > 0
  /\ lPending' = lPending - 1
  /\ IF limitCanStart(lActive, lQueue)
     THEN /\ lQueue' = lQueue - 1
          /\ lActive' = lActive + 1
          /\ lRead' = lRead + 1
     ELSE UNCHANGED <<lQueue, lActive, lRead>>
  /\ UNCHANGED <<lMapped, lUp, lDone>>
  /\ UNCHANGED otherThanLim

\* A task settles: p-limit's next() frees its slot and starts the head of
\* the queue, if any. The settled task leaves lRead (readLeft = 1) or lUp
\* (upLeft = 1).
LimSettle(readLeft, upLeft) ==
  /\ lDone' = lDone + 1
  /\ lUp' = lUp - upLeft
  /\ IF lQueue > 0
     THEN /\ lQueue' = lQueue - 1
          /\ lActive' = lActive
          /\ lRead' = lRead - readLeft + 1
     ELSE /\ lQueue' = lQueue
          /\ lActive' = lActive - 1
          /\ lRead' = lRead - readLeft

\* The read of line 187 ends and the file needs an upload: uploadFile runs.
LimReadToUpload ==
  /\ lPending = 0 /\ lMapped = LimFiles
  /\ lRead > 0
  /\ lRead' = lRead - 1
  /\ lUp' = lUp + 1
  /\ UNCHANGED <<lMapped, lPending, lQueue, lActive, lDone>>
  /\ UNCHANGED otherThanLim

\* The read of line 187 ends and the task settles (hash matches, or the
\* read failed).
LimReadSettle ==
  /\ lPending = 0 /\ lMapped = LimFiles
  /\ lRead > 0
  /\ LimSettle(1, 0)
  /\ UNCHANGED <<lMapped, lPending>>
  /\ UNCHANGED otherThanLim

\* uploadFile ends (true, false or a throw) and the task settles.
LimUploadSettle ==
  /\ lPending = 0 /\ lMapped = LimFiles
  /\ lUp > 0
  /\ LimSettle(0, 1)
  /\ UNCHANGED <<lMapped, lPending>>
  /\ UNCHANGED otherThanLim

LimNext ==
  \/ LimEnqueue
  \/ LimAdmit
  \/ LimReadToUpload
  \/ LimReadSettle
  \/ LimUploadSettle

\* -------------------------------------------------------------- MetaStore
Keys == 1..MaxKeys
Hashes == 1..MaxHash
\* A mapping gives each key a hash, or 0 when the key is not set.
Maps == [Keys -> 0..MaxHash]
EmptyMap == [k \in Keys |-> 0]

Tok(t, k, v) == [t |-> t, k |-> k, v |-> v]

\* JSON.stringify of the mapping: "{", one "key":"hash" pair per set key,
\* "}" -- a sequence of tokens, which a write puts on disk one by one.
RECURSIVE pairsFrom(_, _)
pairsFrom(map, k) ==
  IF k > MaxKeys THEN <<>>
  ELSE (IF map[k] = 0 THEN <<>> ELSE <<Tok("pair", k, map[k])>>)
       \o pairsFrom(map, k + 1)
serialize(map) == <<Tok("{", 0, 0)>> \o pairsFrom(map, 1) \o <<Tok("}", 0, 0)>>

\* JSON.parse succeeds on a complete document only.
parseOK(doc) ==
  /\ Len(doc) >= 2
  /\ doc[1].t = "{"
  /\ doc[Len(doc)].t = "}"
  /\ \A i \in 2..(Len(doc) - 1) : doc[i].t = "pair"
parseMap(doc) ==
  [k \in Keys |->
     IF \E i \in 2..(Len(doc) - 1) : doc[i].k = k
     THEN doc[CHOOSE i \in 2..(Len(doc) - 1) : doc[i].k = k].v
     ELSE 0]

\* What a corrupt primary holds ("corrupt json {" in the test).
CorruptDoc == <<Tok("junk", 0, 0), Tok("{", 0, 0)>>

\* The file save() writes before it replaces the primary.
stagePathInPlace == "primary"
stagePath == "tmp"

\* rename(src, dst): dst becomes src's document in one step; src is gone.
rename(files, src, dst) ==
  IF src = dst THEN files
  ELSE [files EXCEPT ![dst] = files[src], ![src] = <<>>]

\* load()'s policy: the primary if it parses; else the staging file if it
\* parses, which is then saved again; else an empty mapping.
loadPolicyPrimaryOnly(primary, tmp) ==
  IF parseOK(primary) THEN [data |-> parseMap(primary), resave |-> FALSE]
  ELSE [data |-> EmptyMap, resave |-> FALSE]
loadPolicyNoResave(primary, tmp) ==
  IF parseOK(primary) THEN [data |-> parseMap(primary), resave |-> FALSE]
  ELSE IF parseOK(tmp) THEN [data |-> parseMap(tmp), resave |-> FALSE]
  ELSE [data |-> EmptyMap, resave |-> FALSE]
loadPolicy(primary, tmp) ==
  IF parseOK(primary) THEN [data |-> parseMap(primary), resave |-> FALSE]
  ELSE IF parseOK(tmp) THEN [data |-> parseMap(tmp), resave |-> TRUE]
  ELSE [data |-> EmptyMap, resave |-> FALSE]

\* The mapping the primary holds (none yet: the empty mapping).
Persisted ==
  IF parseOK(mFiles["primary"]) THEN parseMap(mFiles["primary"]) ELSE EmptyMap

MetaInit ==
  /\ mFiles = [p \in {"primary", "tmp"} |-> <<>>]
  /\ mData = EmptyMap
  /\ mPc = "dead"
  /\ mTarget = <<>>
  /\ mOld = EmptyMap /\ mNew = EmptyMap
  /\ mFresh = FALSE
  /\ mStaged = EmptyMap
  /\ mRecovered = FALSE
  /\ mCorrupted = FALSE

\* new MetaStore() in a fresh process.
MetaConstruct ==
  /\ mPc = "dead"
  /\ mPc' = "new"
  /\ mData' = EmptyMap
  /\ UNCHANGED <<mFiles, mTarget, mOld, mNew, mFresh, mStaged, mRecovered,
                 mCorrupted>>
  /\ UNCHANGED otherThanMeta

\* save() begins: the staging file is opened for writing (truncated).
saveBegin(data) ==
  /\ mTarget' = serialize(data)
  /\ mFiles' = [mFiles EXCEPT ![stagePath] = <<>>]
  /\ mPc' = "writing"
  /\ mOld' = Persisted
  /\ mNew' = data

\* load(): parse the primary, else recover from the staging file and save.
MetaLoad ==
  /\ mPc = "new"
  /\ LET r == loadPolicy(mFiles["primary"], mFiles["tmp"])
     IN /\ mData' = r.data
        /\ mRecovered' = (~parseOK(mFiles["primary"]) /\ parseOK(mFiles["tmp"]))
        /\ mStaged' = IF parseOK(mFiles["tmp"]) THEN parseMap(mFiles["tmp"])
                      ELSE EmptyMap
        /\ mFresh' = TRUE
        /\ IF r.resave
           THEN saveBegin(r.data)
           ELSE /\ mPc' = "ready"
                /\ UNCHANGED <<mFiles, mTarget, mOld, mNew>>
  /\ UNCHANGED mCorrupted
  /\ UNCHANGED otherThanMeta

\* set(key, hash)
MetaSet(k, h) ==
  /\ mPc = "ready"
  /\ mData[k] # h
  /\ mData' = [mData EXCEPT ![k] = h]
  /\ mFresh' = FALSE
  /\ mRecovered' = FALSE
  /\ UNCHANGED <<mFiles, mPc, mTarget, mOld, mNew, mStaged, mCorrupted>>
  /\ UNCHANGED otherThanMeta

\* save() called on a loaded store.
MetaSave ==
  /\ mPc = "ready"
  /\ saveBegin(mData)
  /\ UNCHANGED <<mData, mFresh, mStaged, mRecovered, mCorrupted>>
  /\ UNCHANGED otherThanMeta

\* save() writes the next piece of the document to the staging file.
MetaWrite ==
  /\ mPc = "writing"
  /\ Len(mFiles[stagePath]) < Len(mTarget)
  /\ mFiles' = [mFiles EXCEPT
       ![stagePath] = Append(@, mTarget[Len(@) + 1])]
  /\ UNCHANGED <<mData, mPc, mTarget, mOld, mNew, mFresh, mStaged,
                 mRecovered, mCorrupted>>
  /\ UNCHANGED otherThanMeta

\* The write is complete: the staging file is closed.
MetaWritten ==
  /\ mPc = "writing"
  /\ Len(mFiles[stagePath]) = Len(mTarget)
  /\ mPc' = "rename"
  /\ UNCHANGED <<mFiles, mData, mTarget, mOld, mNew, mFresh, mStaged,
                 mRecovered, mCorrupted>>
  /\ UNCHANGED otherThanMeta

\* save() replaces the primary by the staging file, and returns.
MetaRename ==
  /\ mPc = "rename"
  /\ mFiles' = rename(mFiles, stagePath, "primary")
  /\ mPc' = "ready"
  /\ UNCHANGED <<mData, mTarget, mOld, mNew, mFresh, mStaged, mRecovered,
                 mCorrupted>>
  /\ UNCHANGED otherThanMeta

\* The process is killed, at any step.
MetaCrash ==
  /\ mPc # "dead"
  /\ mPc' = "dead"
  /\ mData' = EmptyMap
  /\ mFresh' = FALSE
  /\ mRecovered' = FALSE
  /\ UNCHANGED <<mFiles, mTarget, mOld, mNew, mStaged, mCorrupted>>
  /\ UNCHANGED otherThanMeta

\* The primary is damaged from outside while no process runs (the test's
\* fs.writeFileSync(metaFile, "corrupt json {")).
MetaCorrupt ==
  /\ mPc = "dead"
  /\ mFiles["primary"] # CorruptDoc
  /\ mFiles' = [mFiles EXCEPT !["primary"] = CorruptDoc]
  /\ mCorrupted' = TRUE
  /\ UNCHANGED <<mData, mPc, mTarget, mOld, mNew, mFresh, mStaged,
                 mRecovered>>
  /\ UNCHANGED otherThanMeta

MetaNext ==
  \/ MetaConstruct
  \/ MetaLoad
  \/ \E k \in Keys, h \in Hashes : MetaSet(k, h)
  \/ MetaSave
  \/ MetaWrite
  \/ MetaWritten
  \/ MetaRename
  \/ MetaCrash
  \/ MetaCorrupt

\* ---------------------------------------------------- NodeGit.getGitFiles
\* Bytes of `git ls-files -z`: the NUL delimiter, an ASCII letter, and the
\* two bytes of a two-byte UTF-8 character.
NUL == 0
Letter == 97
LeadByte == 195
ContByte == 169
Bytes == {NUL, Letter, LeadByte, ContByte}
\* Characters of a decoded string.
TwoByteChar == 233
Replacement == 65533

\* Output git can write: file names are well-formed UTF-8.
WellFormed(out) ==
  \A i \in 1..Len(out) :
    /\ out[i] = LeadByte => (i < Len(out) /\ out[i + 1] = ContByte)
    /\ out[i] = ContByte => (i > 1 /\ out[i - 1] = LeadByte)
Outputs ==
  {out \in UNION {[1..n -> Bytes] : n \in 0..MaxOut} : WellFormed(out)}

\* chunk.toString(): UTF-8 decoding of one chunk on its own. A lead byte
\* without its continuation byte in the chunk, and a continuation byte
\* without its lead byte in the chunk, each decode to U+FFFD.
RECURSIVE toStringFrom(_, _)
toStringFrom(chunk, i) ==
  IF i > Len(chunk) THEN <<>>
  ELSE IF chunk[i] = LeadByte
       THEN IF i < Len(chunk) /\ chunk[i + 1] = ContByte
            THEN <<TwoByteChar>> \o toStringFrom(chunk, i + 2)
            ELSE <<Replacement>> \o toStringFrom(chunk, i + 1)
       ELSE IF chunk[i] = ContByte
            THEN <<Replacement>> \o toStringFrom(chunk, i + 1)
            ELSE <<chunk[i]>> \o toStringFrom(chunk, i + 1)
toString(chunk) == toStringFrom(chunk, 1)

\* buffer.split("\u0000"): the parts between delimiters, at least one.
RECURSIVE splitFrom(_, _, _)
splitFrom(str, i, cur) ==
  IF i > Len(str) THEN <<cur>>
  ELSE IF str[i] = NUL THEN <<cur>> \o splitFrom(str, i + 1, <<>>)
       ELSE splitFrom(str, i + 1, Append(cur, str[i]))
split(str) == splitFrom(str, 1, <<>>)

\* path.join(dirRoot, file): the file below the root.
Slash == 47
pathJoin(file) == <<Slash>> \o file

\* Lines 347-349: the non-empty parts, joined to the root, in order.
RECURSIVE yieldParts(_, _)
yieldParts(parts, i) ==
  IF i > Len(parts) THEN <<>>
  ELSE (IF parts[i] # <<>> THEN <<pathJoin(parts[i])>> ELSE <<>>)
       \o yieldParts(parts, i + 1)

\* Lines 343-349 for one chunk: the new buffer and the paths yielded.
onChunk(buffer, chunk) ==
  LET joined == buffer \o toString(chunk)
      parts == split(joined)
  IN [buffer |-> parts[Len(parts)],
      yielded |-> yieldParts(SubSeq(parts, 1, Len(parts) - 1), 1)]

\* Lines 352-354: the trailing record without delimiter.
onEnd(buffer) == IF buffer # <<>> THEN <<pathJoin(buffer)>> ELSE <<>>

\* What the generator yields when the whole output arrives as one chunk.
singleChunk(out) ==
  IF out = <<>> THEN <<>>
  ELSE LET r == onChunk(<<>>, out) IN r.yielded \o onEnd(r.buffer)

GitInit ==
  /\ gOutput \in Outputs
  /\ gPos = 0
  /\ gBuffer = <<>>
  /\ gYielded = <<>>
  /\ gPc = "reading"
  /\ gEvent = "none"
  /\ gResolved = FALSE

\* One iteration of the for-await loop: stdout delivers the next n bytes.
GitChunk(n) ==
  /\ gPc = "reading"
  /\ gPos + n <= Len(gOutput)
  /\ LET r == onChunk(gBuffer, SubSeq(gOutput, gPos + 1, gPos + n))
     IN /\ gBuffer' = r.buffer
        /\ gYielded' = gYielded \o r.yielded
  /\ gPos' = gPos + n
  /\ UNCHANGED <<gOutput, gPc, gEvent, gResolved>>
  /\ UNCHANGED otherThanGit

\* stdout ends: lines 352-354, then lines 357-360 register the listeners of
\* the child's exit and error events and await the promise.
GitEnd ==
  /\ gPc = "reading"
  /\ gPos = Len(gOutput)
  /\ gYielded' = gYielded \o onEnd(gBuffer)
  /\ gPc' = "waitExit"
  /\ UNCHANGED <<gOutput, gPos, gBuffer, gEvent, gResolved>>
  /\ UNCHANGED otherThanGit

\* The child emits its exit event, once, whether or not stdout has been
\* consumed: the listener of line 358 resolves the promise if it is
\* registered; an event emitted before that has no listener.
GitExit ==
  /\ gEvent = "none"
  /\ gPc \in {"reading", "waitExit"}
  /\ gEvent' = "exit"
  /\ gResolved' = (gPc = "waitExit")
  /\ UNCHANGED <<gOutput, gPos, gBuffer, gYielded, gPc>>
  /\ UNCHANGED otherThanGit

\* The child emits an error event instead (the spawn failed, nothing was
\* written): the listener of line 359 resolves the promise if it is
\* registered; an error event without a listener is thrown by the emitter
\* and ends the process.
GitError ==
  /\ gEvent = "none"
  /\ gPc \in {"reading", "waitExit"}
  /\ gPos = 0 /\ gOutput = <<>>
  /\ gEvent' = "error"
  /\ gResolved' = (gPc = "waitExit")
  /\ gPc' = IF gPc = "waitExit" THEN gPc ELSE "crashed"
  /\ UNCHANGED <<gOutput, gPos, gBuffer, gYielded>>
  /\ UNCHANGED otherThanGit

\* await new Promise(...) of line 357: the generator goes on once the
\* promise is resolved.
awaitPassesUnresolved(resolved) == TRUE
awaitPasses(resolved) == resolved

\* The awaited promise is resolved: the generator returns (line 361), the
\* sequence is done.
GitFinish ==
  /\ gPc = "waitExit"
  /\ awaitPasses(gResolved)
  /\ gPc' = "done"
  /\ UNCHANGED <<gOutput, gPos, gBuffer, gYielded, gEvent, gResolved>>
  /\ UNCHANGED otherThanGit

GitNext ==
  \/ \E n \in 1..MaxOut : GitChunk(n)
  \/ GitEnd
  \/ GitExit
  \/ GitError
  \/ GitFinish

\* -------------------------------------------------------- GitIgnoreFilter
\* A path is a sequence of segments; a segment is a name with its extension.
\* "." and ".." are segments of their own.
Seg(stem, ext) == [stem |-> stem, ext |-> ext]
Dot == Seg(".", "")
DotDot == Seg("..", "")
Segs == {Dot, DotDot, Seg("dist", ""), Seg("app", ""), Seg("file", "js"),
         Seg("debug", "log"), Seg("index", "ts")}
RootPath == <<Seg("repo", "")>>
\* The paths isIgnored is asked about: the root joined with some segments.
Tails == UNION {[1..n -> Segs] : n \in 0..MaxDepth}

\* path.resolve: "." segments dropped, ".." segments climbing one level.
RECURSIVE resolveFrom(_, _, _)
resolveFrom(p, i, acc) ==
  IF i > Len(p) THEN acc
  ELSE IF p[i] = Dot THEN resolveFrom(p, i + 1, acc)
  ELSE IF p[i] = DotDot
       THEN resolveFrom(p, i + 1,
                        IF acc = <<>> THEN acc ELSE SubSeq(acc, 1, Len(acc) - 1))
       ELSE resolveFrom(p, i + 1, Append(acc, p[i]))

\* path.relative(from, to): climb out of what `from` does not share with
\* `to`, then descend; empty when both resolve to the same path.
relative(from, to) ==
  LET f == resolveFrom(from, 1, <<>>)
      t == resolveFrom(to, 1, <<>>)
      shared == {k \in 0..Min(Len(f), Len(t)) : SubSeq(f, 1, k) = SubSeq(t, 1, k)}
      k == SetMax(shared)
  IN [i \in 1..(Len(f) - k) |-> DotDot] \o SubSeq(t, k + 1, Len(t))

\* fs.statSync(filePath).isDirectory(), with the catch of lines 206-209: a
\* path that does not exist is not a directory.
statIsDirectoryNever(filePath, distIsDir) == FALSE
statIsDirectory(filePath, distIsDir) ==
  resolveFrom(filePath, 1, <<>>) \in
    {<<>>, RootPath, RootPath \o <<Seg("app", "")>>}
      \cup (IF distIsDir THEN {RootPath \o <<Seg("dist", "")>>} ELSE {})

\* One gitignore pattern against one path segment: "dist/" matches a
\* directory named dist, "*.log" any name ending in .log.
ruleMatches(pattern, seg, isDir) ==
  CASE pattern = "dist/" -> isDir /\ seg = Seg("dist", "")
    [] pattern = "*.log" -> seg.ext = "log"
    [] pattern = "skip.ts" -> seg = Seg("skip", "ts")
    [] OTHER -> FALSE
Patterns == {"dist/", "*.log"}

\* ignoreInstance.ignores(pathToCheck) of the `ignore` package: a path that
\* is not inside the root (".." or "../...") is rejected with a RangeError;
\* otherwise the path is ignored when a rule matches it or one of its
\* parent directories.
ignores(rules, segs, isDir) ==
  IF segs[1] = DotDot THEN "throw"
  ELSE IF \E i \in 1..Len(segs), r \in rules :
            ruleMatches(r, segs[i], i < Len(segs) \/ isDir)
       THEN "true" ELSE "false"

\* GitIgnoreFilter.isIgnored (lines 197-214).
isIgnored(rules, filePath, root, distIsDir) ==
  LET normalizedPath == relative(root, filePath)
  IN IF normalizedPath = <<>> THEN "false"
     ELSE ignores(rules, normalizedPath, statIsDirectory(filePath, distIsDir))

IgnInit ==
  /\ iRules = {}
  /\ iDistIsDir \in BOOLEAN
  /\ iPath = RootPath
  /\ iResult = "none"

\* add(patterns), lines 220-222.
IgnAdd(pattern) ==
  /\ pattern \notin iRules
  /\ iRules' = iRules \cup {pattern}
  /\ iResult' = "none"
  /\ UNCHANGED <<iDistIsDir, iPath>>
  /\ UNCHANGED otherThanIgn

\* clear(), lines 227-229.
IgnClear ==
  /\ iRules # {}
  /\ iRules' = {}
  /\ iResult' = "none"
  /\ UNCHANGED <<iDistIsDir, iPath>>
  /\ UNCHANGED otherThanIgn

\* A call isIgnored(path.join(root, ...tail), root).
IgnIsIgnored(tail) ==
  /\ iPath' = RootPath \o tail
  /\ iResult' = isIgnored(iRules, RootPath \o tail, RootPath, iDistIsDir)
  /\ UNCHANGED <<iRules, iDistIsDir>>
  /\ UNCHANGED otherThanIgn

IgnNext ==
  \/ \E pattern \in Patterns : IgnAdd(pattern)
  \/ IgnClear
  \/ \E tail \in Tails : IgnIsIgnored(tail)

\* --------------------------------------------------------- file discovery
\* The tree getFiles walks: a non-empty hidden directory, plain files, and
\* the directories dist and app.
DiscTree ==
  {RootPath \o t : t \in
     {<<Seg("", "hidden")>>, <<Seg("", "hidden"), Seg("secret", "ts")>>,
      <<Seg("visible", "ts")>>, <<Seg("skip", "ts")>>, <<Seg("skip", "log")>>,
      <<Seg("dist", "")>>, <<Seg("dist", ""), Seg("file", "js")>>,
      <<Seg("app", "")>>, <<Seg("app", ""), Seg("index", "ts")>>,
      <<Seg("app", ""), Seg("debug", "log")>>}}
\* readdir(dir)
children(dir) ==
  {q \in DiscTree : Len(q) = Len(dir) + 1 /\ SubSeq(q, 1, Len(dir)) = dir}

\* The name begins with the hidden-file marker ".".
hiddenMarkerNone(seg) == FALSE
hiddenMarker(seg) == seg.stem = ""

\* The composed ignore decision: secondary ignore file, configured
\* patterns and version-control rules.
composedRules(secondary, literal, vcs) == secondary \cup literal \cup vcs

DiscInit ==
  /\ dSecondary \in SUBSET {"skip.ts"}
  /\ dLiteral \in SUBSET {"*.log"}
  /\ dVcs \in SUBSET {"dist/"}
  /\ dPending = {}
  /\ dYielded = {}
  /\ dPc = "idle"

\* getFiles(root) is called: the root directory is read.
DiscStart ==
  /\ dPc = "idle"
  /\ dPc' = "walking"
  /\ dPending' = children(RootPath)
  /\ UNCHANGED <<dSecondary, dLiteral, dVcs, dYielded>>
  /\ UNCHANGED otherThanDisc

\* One entry of the walk: skipped when hidden or ignored, read when a
\* directory, yielded when a file.
DiscVisit(e) ==
  /\ dPc = "walking"
  /\ e \in dPending
  /\ LET skip == \/ hiddenMarker(e[Len(e)])
                 \/ isIgnored(composedRules(dSecondary, dLiteral, dVcs),
                              e, RootPath, TRUE) = "true"
     IN IF skip
        THEN /\ dPending' = dPending \ {e}
             /\ UNCHANGED dYielded
        ELSE IF children(e) # {}
        THEN /\ dPending' = (dPending \ {e}) \cup children(e)
             /\ UNCHANGED dYielded
        ELSE /\ dPending' = dPending \ {e}
             /\ dYielded' = dYielded \cup {e}
  /\ UNCHANGED <<dSecondary, dLiteral, dVcs, dPc>>
  /\ UNCHANGED otherThanDisc

\* Nothing is left to visit: the sequence ends.
DiscDone ==
  /\ dPc = "walking"
  /\ dPending = {}
  /\ dPc' = "done"
  /\ UNCHANGED <<dSecondary, dLiteral, dVcs, dPending, dYielded>>
  /\ UNCHANGED otherThanDisc

DiscNext ==
  \/ DiscStart
  \/ \E e \in DiscTree : DiscVisit(e)
  \/ DiscDone

\* ------------------------------------------------------ TreeSitterChunker
\* Characters of a content: a letter, a space, a newline.
Chars == {"a", " ", "\n"}
ChunkContents == UNION {[1..n -> Chars] : n \in 0..MaxContent}
isSpace(c) == c \in {" ", "\n"}

\* Where a match of /\n\s*\n/ starting at i ends (0: no match at i): \s* is
\* greedy, so at the last newline of the whitespace run that begins at i.
matchEnd(content, i) ==
  LET ends == {j \in (i + 1)..Len(content) :
                 /\ content[j] = "\n"
                 /\ \A k \in i..j : isSpace(content[k])}
  IN IF content[i] = "\n" /\ ends # {} THEN SetMax(ends) ELSE 0

\* content.split(/\n\s*\n/), each piece with the index of its first
\* character in content.
RECURSIVE splitParagraphs(_, _, _)
splitParagraphs(content, i, start) ==
  IF i > Len(content)
  THEN <<[text |-> SubSeq(content, start, Len(content)), from |-> start]>>
  ELSE IF matchEnd(content, i) # 0
       THEN <<[text |-> SubSeq(content, start, i - 1), from |-> start]>>
            \o splitParagraphs(content, matchEnd(content, i) + 1,
                               matchEnd(content, i) + 1)
       ELSE splitParagraphs(content, i + 1, start)

\* p.split("\n").length
numLines(p) == Cardinality({i \in 1..Len(p) : p[i] = "\n"}) + 1
\* !p.trim()
isBlank(p) == \A i \in 1..Len(p) : isSpace(p[i])

\* The loop of fallbackChunk (lines 149-162) from paragraph i on.
RECURSIVE fallbackFrom(_, _, _)
fallbackFrom(paragraphs, i, lineOffset) ==
  IF i > Len(paragraphs) THEN <<>>
  ELSE LET p == paragraphs[i].text
       IN IF isBlank(p)
          THEN fallbackFrom(paragraphs, i + 1, lineOffset + numLines(p))
          ELSE <<[content |-> p, startLine |-> lineOffset,
                  endLine |-> lineOffset + numLines(p), type |-> "block"]>>
               \o fallbackFrom(paragraphs, i + 1, lineOffset + numLines(p))

\* fallbackChunk (lines 143-164).
fallbackChunk(content) == fallbackFrom(splitParagraphs(content, 1, 1), 1, 0)

\* Top-level nodes a parse can give: their type and the length of their
\* text; node k sits on row k - 1.
NodeKinds ==
  {[type |-> "function_declaration", len |-> minOtherLength],
   [type |-> "class_definition", len |-> minOtherLength + 1],
   [type |-> "import_statement", len |-> minOtherLength],
   [type |-> "import_statement", len |-> minOtherLength + 1]}
Trees == UNION {[1..n -> NodeKinds] : n \in 0..MaxNodes}

\* Line 126: child.text.length > 50.
isSubstantialFrom50(len) == len >= minOtherLength
isSubstantial(len) == len > minOtherLength

\* Lines 110-135: the chunks of the top-level nodes from node i on.
RECURSIVE nodeChunks(_, _)
nodeChunks(nodes, i) ==
  IF i > Len(nodes) THEN <<>>
  ELSE LET child == nodes[i]
           text == [k \in 1..child.len |-> "a"]
           at(type) == <<[content |-> text, startLine |-> i - 1,
                          endLine |-> i - 1, type |-> type]>>
       IN (IF child.type \in {"function_declaration", "method_definition",
                               "function_definition"}
           THEN at("function")
           ELSE IF child.type \in {"class_declaration", "class_definition"}
           THEN at("class")
           ELSE IF isSubstantial(child.len) THEN at("other") ELSE <<>>)
          \o nodeChunks(nodes, i + 1)

\* Lines 90-94: the language of an extension ("" when none).
langOf(ext) == IF ext = ".ts" THEN "typescript" ELSE ""

ChunkInit ==
  /\ cContent \in ChunkContents /\ cExt = ".ts"
  /\ cFile \in {"absent", "complete"}
  /\ cMemo = FALSE
  /\ cNodes = <<>>
  /\ cPc = "idle" /\ cVia = "none" /\ cResult = <<>>

\* chunk(filePath, content) is called for the file under one of its names
\* (lines 86-99, getLanguage 43-53): no
\* language for the extension gives the fallback; a memoized language goes
\* to the parse; an existing grammar file is loaded; otherwise downloadFile
\* creates the file and requests the grammar.
ChunkCall(ext) ==
  /\ cPc \in {"idle", "done", "raised"}
  /\ cExt' = ext
  /\ cNodes' = <<>>
  /\ IF langOf(ext) = ""
     THEN /\ cPc' = "done" /\ cVia' = "unsupported"
          /\ cResult' = fallbackChunk(cContent)
          /\ UNCHANGED cFile
     ELSE /\ cVia' = "none" /\ cResult' = <<>>
          /\ IF cMemo THEN cPc' = "parse" /\ UNCHANGED cFile
             ELSE IF cFile # "absent" THEN cPc' = "load" /\ UNCHANGED cFile
             ELSE cPc' = "download" /\ cFile' = "partial"
  /\ UNCHANGED <<cContent, cMemo>>
  /\ UNCHANGED otherThanChunk

\* downloadFile (lines 66-84): the response is piped to the file, whatever
\* its status; a success leaves the grammar, any other response a file that
\* is no grammar. Then line 57 loads the file.
ChunkDownloaded(ok) ==
  /\ cPc = "download"
  /\ cFile' = IF ok THEN "complete" ELSE "garbage"
  /\ cPc' = "load"
  /\ UNCHANGED <<cContent, cExt, cMemo, cNodes, cVia, cResult>>
  /\ UNCHANGED otherThanChunk

\* The request fails (lines 79-82): the file is unlinked and the promise
\* rejects; line 52 awaits it outside any try, so getLanguage and chunk()
\* reject with it.
ChunkDownloadFail ==
  /\ cPc = "download"
  /\ cFile' = "absent"
  /\ cPc' = "raised" /\ cVia' = "downloadFailed"
  /\ UNCHANGED <<cContent, cExt, cMemo, cNodes, cResult>>
  /\ UNCHANGED otherThanChunk

\* Parser.Language.load succeeds (lines 57-59): memoized, parse next.
ChunkLoaded ==
  /\ cPc = "load"
  /\ cFile = "complete"
  /\ cMemo' = TRUE
  /\ cPc' = "parse"
  /\ UNCHANGED <<cContent, cExt, cFile, cNodes, cVia, cResult>>
  /\ UNCHANGED otherThanChunk

\* Parser.Language.load throws (lines 60-63): null, so line 99 falls back.
ChunkLoadFail ==
  /\ cPc = "load"
  /\ cPc' = "done" /\ cVia' = "loadFailed"
  /\ cResult' = fallbackChunk(cContent)
  /\ UNCHANGED <<cContent, cExt, cFile, cMemo, cNodes>>
  /\ UNCHANGED otherThanChunk

\* Lines 101-140: parse, collect the chunks of the top-level nodes, fall
\* back when there is none.
ChunkParse(nodes) ==
  /\ cPc = "parse"
  /\ cNodes' = nodes
  /\ cPc' = "done"
  /\ LET chunks == nodeChunks(nodes, 1)
     IN IF Len(chunks) = 0
        THEN cVia' = "parsedEmpty" /\ cResult' = fallbackChunk(cContent)
        ELSE cVia' = "parsed" /\ cResult' = chunks
  /\ UNCHANGED <<cContent, cExt, cFile, cMemo>>
  /\ UNCHANGED otherThanChunk

ChunkNext ==
  \/ \E ext \in {".ts", ".md"} : ChunkCall(ext)
  \/ \E ok \in BOOLEAN : ChunkDownloaded(ok)
  \/ ChunkDownloadFail
  \/ ChunkLoaded
  \/ ChunkLoadFail
  \/ \E nodes \in Trees : ChunkParse(nodes)

\* ------------------------------------------------ NodeGit.getGitIgnoreFilter
NoEntry == [filter |-> 0, mtime |-> 0]

\* Lines 372-378: the file's mtime, 0 when the stat fails.
currentMtime(file) == IF file.exists THEN file.mtime ELSE 0

\* getGitIgnoreContent (lines 307-321): the rules of the file, none when
\* it does not exist.
getGitIgnoreContent(file) == IF file.exists THEN file.rules ELSE {}

\* Line 381: !cached || cached.mtime !== currentMtime.
isStaleOnlyWhenMissing(cached, mtime) == cached.filter = 0
isStale(cached, mtime) == cached.filter = 0 \/ cached.mtime # mtime

CacheInit ==
  /\ kFile = [exists |-> FALSE, rules |-> {}, mtime |-> 0]
  /\ kHist = <<>>
  /\ kCache = NoEntry
  /\ kFilters = <<>> /\ kBuilt = <<>>
  /\ kReturned = 0
  /\ kPrev = NoEntry
  /\ kJustCalled = FALSE

\* Another process writes the root .gitignore (creates or changes it): the
\* file gets a later mtime.
IgnoreFileWrite(rules) ==
  /\ Len(kHist) < MaxWrites
  /\ kHist' = Append(kHist, rules)
  /\ kFile' = [exists |-> TRUE, rules |-> rules, mtime |-> Len(kHist) + 1]
  /\ kJustCalled' = FALSE
  /\ UNCHANGED <<kCache, kFilters, kBuilt, kReturned, kPrev>>
  /\ UNCHANGED otherThanCache

\* Another process removes the root .gitignore.
IgnoreFileRemove ==
  /\ kFile.exists
  /\ kFile' = [exists |-> FALSE, rules |-> {}, mtime |-> 0]
  /\ kJustCalled' = FALSE
  /\ UNCHANGED <<kHist, kCache, kFilters, kBuilt, kReturned, kPrev>>
  /\ UNCHANGED otherThanCache

\* getGitIgnoreFilter(repoRoot), lines 367-393.
GetGitIgnoreFilter ==
  /\ LET mtime == currentMtime(kFile)
         cached == kCache
     IN /\ kPrev' = cached
        /\ IF isStale(cached, mtime)
           THEN \* a new object, filled from the file, replaces the entry
                /\ kFilters' = Append(kFilters, getGitIgnoreContent(kFile))
                /\ kBuilt' = Append(kBuilt, kFile.rules)
                /\ kCache' = [filter |-> Len(kFilters) + 1, mtime |-> mtime]
                /\ kReturned' = Len(kFilters) + 1
           ELSE /\ kReturned' = cached.filter
                /\ UNCHANGED <<kFilters, kBuilt, kCache>>
  /\ kJustCalled' = TRUE
  /\ UNCHANGED <<kFile, kHist>>
  /\ UNCHANGED otherThanCache

CacheNext ==
  \/ \E rules \in SUBSET Patterns : IgnoreFileWrite(rules)
  \/ IgnoreFileRemove
  \/ GetGitIgnoreFilter

\* -------------------------------------------------------- embedding worker
Ids == 1..MaxReqs
Widths == ((sliceDims - MaxSkew)..(sliceDims + MaxSkew)) \cup {modelDims}
\* A request message {id, text?, texts?}: text is absent, "" or a text, texts
\* is absent or an array of 0..MaxBatch texts.
Messages ==
  {m \in [text : {"absent", "", "t"}, hasTexts : BOOLEAN, texts : 0..MaxBatch] :
     ~m.hasTexts => m.texts = 0}
NoMessage == [text |-> "absent", hasTexts |-> FALSE, texts |-> 0]

\* message.texts || (message.text ? [message.text] : []): how many inputs.
\* An empty array is truthy, an empty string is not.
inputs(message) ==
  IF message.hasTexts THEN message.texts
  ELSE IF message.text = "t" THEN 1 ELSE 0

\* The tensor the pipeline returns for n texts: dims [n, N] and the rows laid
\* out one after the other in data. A component is named by its row and
\* its column.
modelOutput(n, N) ==
  [dims |-> <<n, N>>,
   data |-> [j \in 1..(n * N) |->
               [row |-> ((j - 1) \div N) + 1, col |-> ((j - 1) % N) + 1]]]

\* TypedArray.slice(start, end): indices start..end-1, cut at the length.
slice(data, start, end) == SubSeq(data, start + 1, Min(end, Len(data)))

\* EmbeddingWorker.embed, lines 115-128, on a two-dimensional output.
embed(output) ==
  LET batchSize == output.dims[1]
      hiddenSize == output.dims[2]
  IN [i \in 1..batchSize |->
        slice(output.data, (i - 1) * hiddenSize,
              (i - 1) * hiddenSize + sliceDims)]

\* message.text && !message.texts, lines 148-152.
replyKindBatch(message) == "vectors"
replyKind(message) ==
  IF message.text = "t" /\ ~message.hasTexts THEN "vector" ELSE "vectors"

postMessage(id, kind, vectors, error) ==
  wPosted' = Append(wPosted, [id |-> id, kind |-> kind, vectors |-> vectors,
                              error |-> error])

WorkerInit ==
  /\ wWidth \in Widths
  /\ wPipe = "null" /\ wAllowRemote = FALSE
  /\ wMsg = [id \in Ids |-> NoMessage]
  /\ wPc = [id \in Ids |-> "unsent"]
  /\ wPosted = <<>>

\* The message handler up to its first suspension (lines 135-141, 110-111,
\* 88-95). Requests are numbered in the order they arrive.
OnMessage(id, message) ==
  /\ wPc[id] = "unsent"
  /\ \A j \in Ids : j < id => wPc[j] # "unsent"
  /\ wMsg' = [wMsg EXCEPT ![id] = message]
  /\ IF inputs(message) = 0
       THEN /\ postMessage(id, "error", <<>>, "No text provided")
            /\ wPc' = [wPc EXCEPT ![id] = "done"]
       ELSE /\ wPc' = [wPc EXCEPT ![id] =
                         IF wPipe = "null" THEN "init" ELSE "run"]
            /\ UNCHANGED wPosted
  /\ UNCHANGED <<wWidth, wPipe, wAllowRemote>>
  /\ UNCHANGED otherThanWorker

\* initialize: the local pipeline loaded (lines 94-96, 107, then 113).
LoadLocalDone(id) ==
  /\ wPc[id] = "init"
  /\ wPipe' = "loaded"
  /\ wPc' = [wPc EXCEPT ![id] = "run"]
  /\ UNCHANGED <<wWidth, wAllowRemote, wMsg, wPosted>>
  /\ UNCHANGED otherThanWorker

\* initialize: the local load failed, the download starts (lines 97-102).
LoadLocalFail(id) ==
  /\ wPc[id] = "init"
  /\ wAllowRemote' = TRUE
  /\ wPc' = [wPc EXCEPT ![id] = "download"]
  /\ UNCHANGED <<wWidth, wPipe, wMsg, wPosted>>
  /\ UNCHANGED otherThanWorker

\* initialize: the download succeeded (lines 100-104, then 113).
DownloadDone(id) ==
  /\ wPc[id] = "download"
  /\ wPipe' = "loaded"
  /\ wAllowRemote' = FALSE
  /\ wPc' = [wPc EXCEPT ![id] = "run"]
  /\ UNCHANGED <<wWidth, wMsg, wPosted>>
  /\ UNCHANGED otherThanWorker

\* initialize: the download failed; embed rejects and the handler's catch
\* replies (lines 155-161).
DownloadFail(id) ==
  /\ wPc[id] = "download"
  /\ postMessage(id, "error", <<>>, "load")
  /\ wPc' = [wPc EXCEPT ![id] = "done"]
  /\ UNCHANGED <<wWidth, wPipe, wAllowRemote, wMsg>>
  /\ UNCHANGED otherThanWorker

\* this.pipe(texts) returned: embed slices, the handler replies (113-153).
PipeDone(id) ==
  /\ wPc[id] = "run"
  /\ LET vectors == embed(modelOutput(inputs(wMsg[id]), wWidth))
     IN IF replyKind(wMsg[id]) = "vector"
          THEN postMessage(id, "vector", <<vectors[1]>>, "")
          ELSE postMessage(id, "vectors", vectors, "")
  /\ wPc' = [wPc EXCEPT ![id] = "done"]
  /\ UNCHANGED <<wWidth, wPipe, wAllowRemote, wMsg>>
  /\ UNCHANGED otherThanWorker

\* this.pipe(texts) raised: the handler's catch replies (lines 155-161).
PipeFail(id) ==
  /\ wPc[id] = "run"
  /\ postMessage(id, "error", <<>>, "run")
  /\ wPc' = [wPc EXCEPT ![id] = "done"]
  /\ UNCHANGED <<wWidth, wPipe, wAllowRemote, wMsg>>
  /\ UNCHANGED otherThanWorker

\* The completions and failures of the calls the worker awaits.
WorkerStep ==
  \/ \E id \in Ids : LoadLocalDone(id)
  \/ \E id \in Ids : LoadLocalFail(id)
  \/ \E id \in Ids : DownloadDone(id)
  \/ \E id \in Ids : DownloadFail(id)
  \/ \E id \in Ids : PipeDone(id)
  \/ \E id \in Ids : PipeFail(id)

WorkerNext ==
  \/ \E id \in Ids, message \in Messages : OnMessage(id, message)
  \/ WorkerStep

\* --------------------------------------------------------- specifications
LimIdle == LimInit
MetaIdle == MetaInit
GitIdle ==
  /\ gOutput = <<>> /\ gPos = 0 /\ gBuffer = <<>> /\ gYielded = <<>>
  /\ gPc = "done" /\ gEvent = "none" /\ gResolved = FALSE

IgnIdle ==
  /\ iRules = {} /\ iDistIsDir = TRUE /\ iPath = RootPath /\ iResult = "none"
DiscIdle ==
  /\ dSecondary = {} /\ dLiteral = {} /\ dVcs = {}
  /\ dPending = {} /\ dYielded = {} /\ dPc = "done"
ChunkIdle ==
  /\ cContent = <<>> /\ cExt = ".ts" /\ cFile = "absent" /\ cMemo = FALSE
  /\ cNodes = <<>> /\ cPc = "done" /\ cVia = "none" /\ cResult = <<>>
CacheIdle == CacheInit
WorkerIdle ==
  /\ wWidth = modelDims /\ wPipe = "null" /\ wAllowRemote = FALSE
  /\ wMsg = [id \in Ids |-> NoMessage]
  /\ wPc = [id \in Ids |-> "unsent"]
  /\ wPosted = <<>>
\* Every subsystem but the first five at rest.
RestIdle == DiscIdle /\ ChunkIdle /\ CacheIdle /\ WorkerIdle

\* initialSync on a small repository, every file followed on its own.
Init == SyncInit /\ LimIdle /\ MetaIdle /\ GitIdle /\ IgnIdle /\ RestIdle
Next == SyncNext
Spec == Init /\ [][Next]_vars

\* The admission limiter with more files than slots.
LimSpecInit == SyncIdle /\ LimInit /\ MetaIdle /\ GitIdle /\ IgnIdle /\ RestIdle
SpecLimit == LimSpecInit /\ [][LimNext]_vars

\* MetaStore with crashes.
MetaSpecInit == SyncIdle /\ LimIdle /\ MetaInit /\ GitIdle /\ IgnIdle /\ RestIdle
SpecMeta == MetaSpecInit /\ [][MetaNext]_vars

\* getGitFiles over every output and every chunking.
GitSpecInit == SyncIdle /\ LimIdle /\ MetaIdle /\ GitInit /\ IgnIdle /\ RestIdle
SpecGit == GitSpecInit /\ [][GitNext]_vars
\* The same when stdout is eventually delivered and ended, the child's exit
\* or error event is eventually emitted, and a ready continuation runs.
SpecGitFair == GitSpecInit /\ [][GitNext]_vars /\ WF_vars(GitNext)

\* GitIgnoreFilter over every rule set and every path up to MaxDepth.
IgnSpecInit == SyncIdle /\ LimIdle /\ MetaIdle /\ GitIdle /\ IgnInit /\ RestIdle
SpecIgnore == IgnSpecInit /\ [][IgnNext]_vars

\* getFiles over every combination of ignore sources, in every visit order.
DiscSpecInit ==
  SyncIdle /\ LimIdle /\ MetaIdle /\ GitIdle /\ IgnIdle /\ DiscInit
    /\ ChunkIdle /\ CacheIdle /\ WorkerIdle
SpecDiscover == DiscSpecInit /\ [][DiscNext]_vars

\* chunk() over every content, extension, grammar outcome and tree.
ChunkSpecInit ==
  SyncIdle /\ LimIdle /\ MetaIdle /\ GitIdle /\ IgnIdle /\ DiscIdle
    /\ ChunkInit /\ CacheIdle /\ WorkerIdle
SpecChunk == ChunkSpecInit /\ [][ChunkNext]_vars

\* getGitIgnoreFilter between writes and removals of the ignore file.
CacheSpecInit ==
  SyncIdle /\ LimIdle /\ MetaIdle /\ GitIdle /\ IgnIdle /\ DiscIdle
    /\ ChunkIdle /\ CacheInit /\ WorkerIdle
SpecCache == CacheSpecInit /\ [][CacheNext]_vars

\* The embedding worker: requests arrive at any time; every pipeline call
\* the worker awaits eventually completes or fails.
WorkerSpecInit ==
  SyncIdle /\ LimIdle /\ MetaIdle /\ GitIdle /\ IgnIdle /\ DiscIdle
    /\ ChunkIdle /\ CacheIdle /\ WorkerInit
SpecWorker == WorkerSpecInit /\ [][WorkerNext]_vars /\ WF_vars(WorkerStep)

\* ------------------------------------------------- properties: initialSync
\* Files whose content differs between the previous run and this one.
Changed == {f \in Files : startDisk[f] # prevDisk[f]}
\* Files whose task ended in the catch block before any upload call.
ReadFailed == failed \ attempted
InRun == syncState \in {"listing", "running", "returned"}
NonEmpty(f) == startDisk[f] # <<>>

\* C2 (idempotence): a run that follows a run which returned without any
\* per-file failure, with no file changed since that run started, makes no
\* upload call and reports uploaded = 0.
C2_Idempotent ==
  (InRun /\ run >= 2 /\ prevOK /\ edits = 0 /\ startDisk = prevDisk)
    => (uploadCalls = 0 /\ uploaded = 0 /\ attempted = {})
C2_Witness ==
  /\ syncState = "returned" /\ run >= 2 /\ prevOK /\ edits = 0
  /\ startDisk = prevDisk /\ failed = {}
  /\ processed = total /\ uploaded = 0
  /\ \A f \in Files : NonEmpty(f) /\ remote[f].present

C4_Original ==
  (syncState = "returned" /\ failed = {} /\ edits = 0)
    => \A f \in Files : remote[f].hash = computeBufferHash(startDisk[f])
\* C4, amended: the same for every candidate file that is not empty.
C4_Converged ==
  (syncState = "returned" /\ failed = {} /\ edits = 0)
    => \A f \in Files : NonEmpty(f) =>
         /\ remote[f].present
         /\ remote[f].hash = computeBufferHash(startDisk[f])
C4_Witness ==
  /\ syncState = "returned" /\ run >= 2 /\ failed = {} /\ edits = 0
  /\ \E f \in Files : NonEmpty(f) /\ f \in didUpload
  /\ \E f \in Files : NonEmpty(f) /\ f \notin didUpload

\* C5, as stated: when initialSync returns, every candidate file has been
\* counted in processed and has been reported once to onProgress.
C5_AllProcessed ==
  syncState = "returned" => (processed = total /\ progressCalls = total)

\* C6, as stated: initialSync never rejects.
C6_AlwaysResolves == syncState # "rejected"

\* C7: for a file whose task has ended with its reads done, in a run
\* without edits: an upload call was made iff the file is non-empty and the
\* listing has no hash for it or another hash than its content's; a file
\* for which none was made is not counted in uploaded; the file is counted
\* in processed either way.
C7_UploadIff ==
  edits = 0 =>
    \A f \in Files : (pc[f] = "done" /\ f \notin ReadFailed) =>
      /\ f \in counted
      /\ f \in attempted <=>
           /\ NonEmpty(f)
           /\ \/ storeHashes[f] = Undefined
              \/ storeHashes[f] # computeBufferHash(startDisk[f])
      /\ f \notin attempted => f \notin didUpload
      /\ processed = Cardinality(counted)
      /\ uploaded = Cardinality(didUpload)
C7_Witness ==
  /\ edits = 0 /\ syncState = "returned" /\ failed = {}
  /\ \E f \in Files : f \in attempted /\ f \in didUpload
  /\ \E f \in Files : /\ f \notin attempted /\ NonEmpty(f) /\ f \in counted
                       /\ storeHashes[f] = computeBufferHash(startDisk[f])

\* ------------------------------------------- properties: admission limiter
InFlight == lRead + lUp
Started == lRead + lUp + lDone

\* C1: at most `concurrency` per-file operations are started and not yet
\* finished, in every state; and an operation starts only into a free slot:
\* in-flight is below the cap before the start, or the start is the handover
\* of the slot of a task that settles in the same step.
C1_Bounded ==
  /\ [](InFlight <= concurrency /\ lActive = InFlight)
  /\ [][Started' > Started =>
          /\ Started' = Started + 1
          /\ InFlight' <= concurrency
          /\ (InFlight < concurrency \/ lDone' = lDone + 1)]_vars
C1_Witness ==
  /\ LimFiles > concurrency
  /\ InFlight = concurrency
  /\ lQueue > 0
  /\ lDone > 0
  /\ lUp > 0

\* ------------------------------------------------- properties: MetaStore
\* C8: unless the primary was damaged from outside, whatever step a kill
\* interrupts: the primary is absent (never saved) or a complete document,
\* it holds the mapping persisted before the last save began or the mapping
\* that save wrote, and a load() that follows yields one of these two.
C8_Atomic ==
  ~mCorrupted =>
    /\ mFiles["primary"] = <<>> \/ parseOK(mFiles["primary"])
    /\ Persisted \in {mOld, mNew}
    /\ (mFresh /\ mPc = "ready") => mData \in {mOld, mNew}
C8_Witness ==
  /\ ~mCorrupted
  /\ mPc = "ready" /\ mFresh
  /\ mOld # EmptyMap /\ mNew # mOld /\ mNew # EmptyMap
  /\ mData = mOld
  /\ mFiles["tmp"] # <<>> /\ ~parseOK(mFiles["tmp"])

\* C9: a load() that finds the primary unparsable and the staging document
\* well-formed takes the staged mapping as the in-memory mapping, and once
\* it has returned the primary holds the staged mapping.
C9_Recovery ==
  mRecovered =>
    /\ mData = mStaged
    /\ mPc = "ready" => (parseOK(mFiles["primary"]) /\ Persisted = mStaged)
C9_Witness ==
  /\ mRecovered /\ mPc = "ready" /\ mCorrupted
  /\ mStaged # EmptyMap
  /\ \E k \in Keys : mData[k] # 0
  /\ Persisted = mStaged

\* ----------------------------------------------- properties: getGitFiles
\* C10, as stated: however the output is cut into chunks, the paths yielded
\* are those yielded when it arrives as a single chunk.
C10_SameAsSingleChunk ==
  gPc = "done" => gYielded = singleChunk(gOutput)

\* C11: the sequence is done only after the child's exit or error event:
\* in every state where getGitFiles has returned, the event has been
\* emitted and it is what resolved the awaited promise.
C11_DoneAfterExit ==
  gPc = "done" => (gEvent \in {"exit", "error"} /\ gResolved)
C11_Witness ==
  /\ gPc = "done" /\ gEvent = "exit" /\ gResolved
  /\ Len(gYielded) >= 2

\* ------------------------------------------- properties: GitIgnoreFilter
\* The root-relative form of the last queried path, and whether it lies
\* outside the root.
Rel == relative(RootPath, iPath)
Outside == Rel # <<>> /\ Rel[1] = DotDot
Asked == iResult # "none"

\* C12, as stated: isIgnored returns false without throwing for the root
\* itself, and true without throwing for every path that resolves outside
\* the root, whatever rules are loaded.
C12_RootAndOutside ==
  Asked => /\ Rel = <<>> => iResult = "false"
           /\ Outside => iResult = "true"

\* C13: a directory is evaluated with a trailing separator and any other
\* path without: with rules dist/ and *.log, the directory dist, every path
\* under it and every path ending in .log at any depth are ignored, and
\* app/index.ts is not; with dist/ as the only rule a regular file named
\* dist is not ignored.
C13_DirAndFileRules ==
  (Asked /\ ~Outside /\ Rel # <<>>) =>
    /\ iRules = Patterns =>
         /\ (Rel = <<Seg("dist", "")>> /\ iDistIsDir) => iResult = "true"
         /\ (Len(Rel) >= 2 /\ Rel[1] = Seg("dist", "")) => iResult = "true"
         /\ Rel[Len(Rel)].ext = "log" => iResult = "true"
         /\ Rel = <<Seg("app", ""), Seg("index", "ts")>> => iResult = "false"
    /\ (iRules = {"dist/"} /\ ~iDistIsDir /\ Rel[Len(Rel)] = Seg("dist", "")
         /\ \A i \in 1..(Len(Rel) - 1) : Rel[i] # Seg("dist", ""))
         => iResult = "false"
C13_Witness ==
  /\ iRules = Patterns /\ iDistIsDir
  /\ iPath = RootPath \o <<Seg("dist", "")>>
  /\ iResult = "true"

\* ---------------------------------------------- properties: file discovery
\* C14: no yielded path has a segment beginning with the hidden-file
\* marker, and none is matched (itself or a parent directory) by the
\* secondary ignore file or the configured patterns, whatever the
\* version-control rules; when the walk is done every file that is neither
\* hidden nor ignored has been yielded, visible.ts among them.
C14_NoExcludedPath ==
  /\ \A p \in dYielded :
       /\ \A i \in 1..Len(p) : p[i].stem # ""
       /\ ignores(dSecondary \cup dLiteral, relative(RootPath, p), FALSE)
            = "false"
  /\ dPc = "done" =>
       /\ RootPath \o <<Seg("visible", "ts")>> \in dYielded
       /\ \A p \in DiscTree :
            (/\ children(p) = {}
             /\ \A i \in 1..Len(p) : p[i].stem # ""
             /\ ignores(dSecondary \cup dLiteral \cup dVcs,
                        relative(RootPath, p), FALSE) = "false")
              => p \in dYielded
C14_Witness ==
  /\ dPc = "done"
  /\ dSecondary = {"skip.ts"} /\ dLiteral = {"*.log"} /\ dVcs = {}
  /\ RootPath \o <<Seg("visible", "ts")>> \in dYielded
  /\ RootPath \o <<Seg("dist", ""), Seg("file", "js")>> \in dYielded
  /\ RootPath \o <<Seg("skip", "ts")>> \notin dYielded
  /\ children(RootPath \o <<Seg("", "hidden")>>) # {}

\* --------------------------------------------------- properties: chunker
\* The non-blank paragraphs of the current content, in order.
Paragraphs ==
  SelectSeq(splitParagraphs(cContent, 1, 1), LAMBDA p : ~isBlank(p.text))
\* The 0-indexed line of content on which the character at index `from` sits.
lineOf(from) ==
  Cardinality({i \in 1..(from - 1) : cContent[i] = "\n"})
ViaFallback == cPc = "done" /\ cVia \in {"unsupported", "loadFailed", "parsedEmpty"}

\* C15, as stated: each chunk of the paragraph fallback has startLine equal
\* to the line of the content on which its paragraph begins, and endLine
\* equal to the line just past the paragraph's last line.
C15_TrueLineNumbers ==
  ViaFallback =>
    /\ Len(cResult) = Len(Paragraphs)
    /\ \A k \in 1..Len(cResult) :
         /\ cResult[k].startLine = lineOf(Paragraphs[k].from)
         /\ cResult[k].endLine =
              lineOf(Paragraphs[k].from) + numLines(Paragraphs[k].text)

\* C16, as stated: chunk() never raises because the grammar could not be
\* acquired; with the language unsupported, the download failed or the
\* load failed, it returns the paragraph fallback of the content.
C16_NeverRaises ==
  /\ cPc # "raised"
  /\ (cPc = "done" /\ cVia \in {"unsupported", "loadFailed"})
       => cResult = fallbackChunk(cContent)

\* C17: when no top-level node is a function or class node and none is
\* longer than 50 characters, chunk() returns the paragraph fallback of
\* the content, and that is non-empty when the content has a non-blank
\* paragraph.
C17_EmptyParseFallsBack ==
  (/\ cPc = "done" /\ cVia \in {"parsed", "parsedEmpty"}
   /\ \A k \in 1..Len(cNodes) :
        /\ cNodes[k].type = "import_statement"
        /\ ~(cNodes[k].len > 50))
    => /\ cResult = fallbackChunk(cContent)
       /\ Len(Paragraphs) > 0 => Len(cResult) > 0
C17_Witness ==
  /\ cPc = "done" /\ cVia = "parsedEmpty"
  /\ Len(cNodes) = MaxNodes
  /\ Len(cResult) >= 2

\* ------------------------------------- properties: getGitIgnoreFilter
\* The rules the file had at mtime m (none at 0, the file missing).
rulesAt(m) == IF m = 0 THEN {} ELSE kHist[m]

StoreAsListed == InRun /\ didUpload = {}

UploadFileRaised(f) == pc[f] = "done" /\ f \in failed /\ f \in counted

\* C20, as stated: uploadFile raises only when both upload attempts failed.
C20_Original ==
  \A f \in Files :
    UploadFileRaised(f) => upLog[f] = <<"streamFail", "bufferedFail">>

\* C20, amended: the streamed upload comes first and the buffered one
\* follows exactly when the streamed one failed, both under the file's
\* path with the hash of the buffer uploadFile read; uploadFile returns
\* true iff one of them succeeded; an empty file gets no upload call and is
\* not counted; uploadFile raises when both attempts failed or when its
\* own read failed before any attempt, and a file for which it raised is
\* not counted as uploaded.
C20_StreamThenBuffered ==
  /\ uploaded = Cardinality(didUpload)
  /\ \A f \in Files :
       /\ upLog[f] \in {<<>>, <<"streamOK">>, <<"streamFail">>,
                         <<"streamFail", "bufferedOK">>,
                         <<"streamFail", "bufferedFail">>}
       /\ upLog[f] = <<"streamFail">> <=> pc[f] = "buffered"
       /\ pc[f] = "stream" => (upLog[f] = <<>> /\ f \in attempted)
       /\ upLog[f] # <<>> =>
            /\ f \in attempted
            /\ upBuffer[f] # <<>>
            /\ upHash[f] = computeBufferHash(upBuffer[f])
       /\ f \in didUpload <=>
            upLog[f] \in {<<"streamOK">>, <<"streamFail", "bufferedOK">>}
       /\ f \in didUpload =>
            (remote[f].present /\ remote[f].hash = upHash[f])
       /\ f \in failed => f \notin didUpload
       /\ UploadFileRaised(f) =>
            \/ upLog[f] = <<"streamFail", "bufferedFail">>
            \/ upLog[f] = <<>> /\ f \notin attempted
       /\ (pc[f] = "done" /\ edits = 0 /\ f \in counted /\ startDisk[f] = <<>>)
            => (f \notin attempted /\ f \notin didUpload)
C20_Witness ==
  /\ syncState = "returned"
  /\ \E f \in Files : upLog[f] = <<"streamFail", "bufferedOK">>
  /\ \E f \in Files : upLog[f] = <<"streamFail", "bufferedFail">>
                       /\ f \in failed
  /\ uploaded = 1

\* initialSync when every call it awaits eventually completes or fails, and
\* every continuation that is ready eventually runs: the caller and the
\* other processes (StartSync, EditFile) are under no such obligation.
SpecFair == Init /\ [][Next]_vars /\ WF_vars(SyncStep)

\* ------------------------------------ properties: the aggregate of a run
\* C21: whatever the order in which the per-file operations were admitted,
\* interleaved and completed, the counters are the numbers of the per-file
\* outcomes: processed counts the files whose read succeeded, uploaded the
\* files whose upload succeeded, total the candidate files; so the
\* returned aggregate depends on the outcomes only.
C21_OrderIndependent ==
  /\ processed = Cardinality(counted)
  /\ uploaded = Cardinality(didUpload)
  /\ syncState \in {"running", "returned"} => total = Cardinality(Files)
C21_Witness ==
  /\ syncState = "returned"
  /\ processed = NumFiles /\ uploaded = 1
  /\ \E f \in Files : upLog[f] = <<"streamFail", "bufferedFail">>
  /\ \E f \in Files : upLog[f] = <<"streamOK">>
  /\ edits > 0

\* C24: 0 <= uploaded <= processed <= total in every state; within a run,
\* total does not change once the files are enumerated, and processed and
\* uploaded never decrease.
C24_CountersOrdered ==
  /\ [](0 <= uploaded /\ uploaded <= processed /\ processed <= total)
  /\ [][run' = run =>
          /\ processed' >= processed
          /\ uploaded' >= uploaded
          /\ syncState \in {"running", "returned"} => total' = total]_vars
C24_Witness ==
  /\ syncState = "running"
  /\ 0 < uploaded /\ uploaded < processed /\ processed = total
  /\ \E f \in Files : pc[f] \in {"stream", "buffered"}

\* C26, as stated: the hash stored with an uploaded file is the content
\* hash of the bytes uploaded under that path, also when another process
\* rewrites the file during the run.
C26_HashOfUploadedBytes ==
  \A f \in Files :
    remote[f].present => remote[f].hash = computeBufferHash(remote[f].bytes)

AllCompleted ==
  /\ \A f \in Files : pc[f] = "done"
  /\ queue = <<>> /\ pendingAdmits = 0 /\ activeCount = 0

\* C22, as stated: initialSync returns only when every candidate file's
\* operation was admitted and has completed, and, when every call it awaits
\* eventually completes or fails, a call of initialSync eventually returns.
C22_ReturnsAfterAll ==
  /\ [](syncState = "returned" => AllCompleted)
  /\ (syncState \in {"listing", "running"}) ~> (syncState = "returned")

\* What holds of C22: the return comes after all the work, and a call
\* whose listing succeeded eventually returns.
C22_ReturnsOnceListed ==
  /\ [](syncState = "returned" => AllCompleted)
  /\ (syncState = "running") ~> (syncState = "returned")

\* ------------------------------------------ properties: embedding worker
RepliesTo(id) == {k \in 1..Len(wPosted) : wPosted[k].id = id}
Results == {k \in 1..Len(wPosted) : wPosted[k].kind # "error"}
\* The first count components of a row of the model output.
rowPrefix(row, count) == [c \in 1..count |-> [row |-> row, col |-> c]]

\* C23, as stated: a result holds one vector per input text, in input
\* order, and vector i is the first sliceDims components of row i of the
\* output (all of row i when the output is narrower), and nothing else.
C23_OneRowEach ==
  \A k \in Results :
    LET reply == wPosted[k]
        n == IF reply.kind = "vector" THEN 1 ELSE inputs(wMsg[reply.id])
    IN /\ Len(reply.vectors) = n
       /\ \A i \in 1..n :
            reply.vectors[i] = rowPrefix(i, Min(sliceDims, wWidth))

\* C27: every request received gets exactly one reply, with its id: never
\* more than one, none before it is received, and eventually one. A
\* single-text request is answered by 'vector' or an error, a batch
\* request by 'vectors' or an error, a request without text by the error
\* "No text provided".
C27_ExactlyOneReply ==
  /\ [](\A id \in Ids :
         /\ Cardinality(RepliesTo(id)) = IF wPc[id] = "done" THEN 1 ELSE 0
         /\ \A k \in RepliesTo(id) :
              LET m == wMsg[id]
                  r == wPosted[k]
              IN /\ (~m.hasTexts /\ m.text = "t")
                      => r.kind \in {"vector", "error"}
                 /\ (m.hasTexts /\ m.texts > 0)
                      => r.kind \in {"vectors", "error"}
                 /\ (m.text # "t" /\ m.texts = 0)
                      => r.kind = "error" /\ r.error = "No text provided")
  /\ \A id \in Ids :
       (wPc[id] # "unsent") ~> (Cardinality(RepliesTo(id)) = 1)
\* The second request arrived while the first was still loading the model,
\* and was answered first.
C27_Witness ==
  /\ wPc[1] = "download" /\ wPc[2] = "done"
  /\ \E k \in RepliesTo(2) : wPosted[k].kind = "vectors"
  /\ wMsg[1].text = "t" /\ ~wMsg[1].hasTexts

\* --------------------------------------------- properties: getGitFiles ends
\* C25, as stated: once the child has exited or has failed to spawn, the
\* sequence eventually completes, in whatever order the end of stdout and
\* the exit or error event come.
C25_AlwaysTerminates == (gEvent # "none") ~> (gPc = "done")

\* ------------------------------------------- properties: the grammar cache
\* C28, as stated: a call of chunk() whose existence check finds the
\* grammar file (it goes on to load it without a download) finds a complete
\* grammar, whatever happened to earlier downloads; and once a grammar is
\* memoized it stays so and is neither downloaded nor loaded again.
C28_CacheHoldsGrammars ==
  [][/\ (cPc \in {"idle", "done", "raised"} /\ cPc' = "load")
          => cFile = "complete"
     /\ cMemo => (cMemo' /\ cPc' \notin {"download", "load"})]_vars

====
